---- MODULE Spec2Model ----
(***************************************************************************)
(* Configuration resolution of cargo (src/cargo/util/config.rs): the typed *)
(* value model (ConfigValue, from_toml, merge), the two directory walks    *)
(* (find_in_tree, walk_tree) and the two resolvers built on them           *)
(* (get_config, all_configs).                                              *)
(*                                                                         *)
(* The ancestor chain of the start directory is a sequence fs: fs[1] is    *)
(* the start directory, fs[Len(fs)] the filesystem root.  The path of the  *)
(* candidate file <ancestor i>/.cargo/config is the number i.              *)
(***************************************************************************)
EXTENDS Integers, Sequences, FiniteSets, TLC

\* Longest ancestor chain explored for get_config.
LookupDirs == 3
\* Longest ancestor chain explored for all_configs.
AggDirs == 2
\* Longest array a fragment holds.
MaxLen == 1

Keys == {"k", "j"}
Texts == {"a", "b"}

EmptyTab == [x \in {} |-> x]

Min(S) == CHOOSE x \in S : \A y \in S : x <= y
Max(S) == CHOOSE x \in S : \A y \in S : y <= x

(***************************************************************************)
(* toml::Value, the parser's value tree.  Integer stands for every kind    *)
(* that is neither a string, an array nor a table (integer, float,         *)
(* boolean, datetime): from_toml treats them alike.                        *)
(***************************************************************************)
TomlString(s) == [t |-> "String", s |-> s, arr |-> <<>>, tab |-> EmptyTab]
TomlInteger == [t |-> "Integer", s |-> "", arr |-> <<>>, tab |-> EmptyTab]
TomlArray(arr) == [t |-> "Array", s |-> "", arr |-> arr, tab |-> EmptyTab]
TomlTable(tab) == [t |-> "Table", s |-> "", arr |-> <<>>, tab |-> tab]

(***************************************************************************)
(* ConfigValueValue and ConfigValue.  A HashMap<String, ConfigValue> is a  *)
(* function from a set of keys; it has no order, and every iteration over  *)
(* it may visit the keys in any order.                                     *)
(***************************************************************************)
String(s) == [tag |-> "String", s |-> s, list |-> <<>>, table |-> EmptyTab]
List(l) == [tag |-> "List", s |-> "", list |-> l, table |-> EmptyTab]
Table(m) == [tag |-> "Table", s |-> "", list |-> <<>>, table |-> m]

ConfigValue(value, path) == [value |-> value, path |-> path]

desc(value) ==
    CASE value.tag = "Table" -> "table"
      [] value.tag = "List" -> "array"
      [] value.tag = "String" -> "string"

(***************************************************************************)
(* CargoResult.  val is meaningful when ok, err when not.                  *)
(***************************************************************************)
NoError == [kind |-> "", msg |-> "", key |-> "", path |-> 0]
NoValue == ConfigValue(List(<<>>), <<>>)
Ok(v) == [ok |-> TRUE, val |-> v, err |-> NoError]
Err(e) == [ok |-> FALSE, val |-> NoValue, err |-> e]

internal(msg) == [kind |-> "internal", msg |-> msg, key |-> "", path |-> 0]
human(msg, key) == [kind |-> "human", msg |-> msg, key |-> key, path |-> 0]
IoError(path) == [kind |-> "io", msg |-> "", key |-> "", path |-> path]
ParseError(path) == [kind |-> "parse", msg |-> "", key |-> "", path |-> path]

(***************************************************************************)
(* ConfigValue::from_toml.  Every node of the converted tree carries the   *)
(* one path of the file it came from.                                      *)
(***************************************************************************)
RECURSIVE from_toml(_, _)
from_toml(path, toml) ==
    CASE toml.t = "String" -> Ok(ConfigValue(String(toml.s), <<path>>))
      [] toml.t = "Array" ->
            IF \A i \in DOMAIN toml.arr : toml.arr[i].t = "String"
            THEN Ok(ConfigValue(List([i \in DOMAIN toml.arr |-> toml.arr[i].s]),
                                <<path>>))
            ELSE Err(internal(""))
      [] toml.t = "Table" ->
            LET conv == [key \in DOMAIN toml.tab |-> from_toml(path, toml.tab[key])]
            IN  IF \A key \in DOMAIN conv : conv[key].ok
                THEN Ok(ConfigValue(Table([key \in DOMAIN conv |-> conv[key].val]),
                                    <<path>>))
                ELSE Err(internal(""))
      [] OTHER -> Err(internal(""))

(***************************************************************************)
(* ConfigValue::merge.  The call mutates self in place and returns         *)
(* Ok(()) or an error; merge(self, from) is the set of outcomes            *)
(* [ok, err, self], one per order in which the incoming HashMap (and every *)
(* nested one) can be iterated.  A failing call leaves in self what the    *)
(* keys visited before the failure have already changed.                   *)
(***************************************************************************)
MergeOk(self) == [ok |-> TRUE, err |-> NoError, self |-> self]
MergeErr(e, self) == [ok |-> FALSE, err |-> e, self |-> self]

RECURSIVE merge(_, _)
RECURSIVE merge_table(_, _, _)

\* The for loop of the Table arm: todo holds the keys of new not yet visited.
merge_table(old, new, todo) ==
    IF todo = {}
    THEN {[ok |-> TRUE, err |-> NoError, table |-> old]}
    ELSE UNION {
           IF key \in DOMAIN old
           THEN UNION {
                  IF o.ok
                  THEN merge_table([old EXCEPT ![key] = o.self], new, todo \ {key})
                  ELSE {[ok |-> FALSE, err |-> o.err,
                         table |-> [old EXCEPT ![key] = o.self]]}
                  : o \in merge(old[key], new[key]) }
           ELSE merge_table((key :> new[key]) @@ old, new, todo \ {key})
           : key \in todo }

\* merge, wrong: a list arm that replaces the list as the string arm does.
merge_list_replaced(self, from) ==
    CASE self.value.tag = "String" /\ from.value.tag = "String" ->
            {MergeOk(ConfigValue(String(from.value.s), from.path))}
      [] self.value.tag = "List" /\ from.value.tag = "List" ->
            {MergeOk(ConfigValue(List(from.value.list), from.path))}
      [] self.value.tag = "Table" /\ from.value.tag = "Table" ->
            { IF o.ok
              THEN MergeOk(ConfigValue(Table(o.table), self.path \o from.path))
              ELSE MergeErr(o.err, ConfigValue(Table(o.table), self.path))
              : o \in merge_table(self.value.table, from.value.table,
                                  DOMAIN from.value.table) }
      [] OTHER ->
            {MergeErr(internal("expected " \o desc(self.value) \o
                               ", but found " \o desc(from.value)), self)}

merge(self, from) ==
    CASE self.value.tag = "String" /\ from.value.tag = "String" ->
            {MergeOk(ConfigValue(String(from.value.s), from.path))}
      [] self.value.tag = "List" /\ from.value.tag = "List" ->
            {MergeOk(ConfigValue(List(self.value.list \o from.value.list),
                                 self.path \o from.path))}
      [] self.value.tag = "Table" /\ from.value.tag = "Table" ->
            { IF o.ok
              THEN MergeOk(ConfigValue(Table(o.table), self.path \o from.path))
              ELSE MergeErr(o.err, ConfigValue(Table(o.table), self.path))
              : o \in merge_table(self.value.table, from.value.table,
                                  DOMAIN from.value.table) }
      [] OTHER ->
            {MergeErr(internal("expected " \o desc(self.value) \o
                               ", but found " \o desc(from.value)), self)}

(***************************************************************************)
(* The candidate file <ancestor>/.cargo/config of one ancestor:            *)
(*   absent     possible.exists() is false                                 *)
(*   noopen     it exists and io::fs::File::open fails                     *)
(*   noread     it opens and read_to_string fails                          *)
(*   malformed  it is read and the TOML parser rejects it                  *)
(*   toml       it parses to the table tab                                 *)
(***************************************************************************)
File(kind, tab) == [kind |-> kind, tab |-> tab]

exists(file) == file.kind # "absent"
open(file, path) == IF file.kind = "noopen" THEN Err(IoError(path)) ELSE Ok(NoValue)
read_to_string(file, path) ==
    IF file.kind = "noread" THEN Err(IoError(path)) ELSE Ok(NoValue)
\* cargo_toml::parse: the table of a well-formed file, an error otherwise.
parse(file, path) ==
    IF file.kind = "toml" THEN Ok(file.tab) ELSE Err(ParseError(path))

\* pop, wrong: it reports the root one ancestor early, so the root is never tried.
pop_stops_before_root(current, n) == current + 1 < n

\* Path::pop on the ancestor numbered current of a chain of n: FALSE at the root.
pop(current, n) == current < n

VARIABLES
    fs,        \* the ancestor chain's candidate files, nearest first
    op,        \* the call in progress: "get_config", "all_configs", "merge"
    key,       \* get_config's key
    current,   \* the walk's current ancestor
    cfg,       \* all_configs' accumulator (merge's self)
    err,       \* walk_tree's err flag
    incoming,  \* the ConfigValue handed to merge
    pc,        \* where the call is
    result,    \* the CargoResult the call returned
    probed,    \* the ancestors whose candidate file was checked for existence
    opened     \* the ancestors whose candidate file was opened

vars == <<fs, op, key, current, cfg, err, incoming, pc, result, probed, opened>>

EmptyAccumulator == ConfigValue(Table(EmptyTab), <<>>)

(***************************************************************************)
(* extract_config: the closure get_config hands to find_in_tree.           *)
(***************************************************************************)
\* extract_config, wrong: it pops the entry "k" whatever key was asked for.
extract_config_fixed_key(file, path, k) ==
    LET contents == read_to_string(file, path)
        toml == parse(file, path)
    IN  IF ~contents.ok THEN Err(contents.err)
        ELSE IF ~toml.ok THEN Err(toml.err)
        ELSE IF "k" \notin DOMAIN toml.val THEN Err(internal(""))
        ELSE from_toml(path, toml.val["k"])

extract_config(file, path, k) ==
    LET contents == read_to_string(file, path)
        toml == parse(file, path)
    IN  IF ~contents.ok THEN Err(contents.err)
        ELSE IF ~toml.ok THEN Err(toml.err)
        ELSE IF k \notin DOMAIN toml.val THEN Err(internal(""))
        ELSE from_toml(path, toml.val[k])

\* get_config's map_err: every error of find_in_tree becomes the same one.
get_config_map_err(r, k) ==
    IF r.ok THEN r ELSE Err(human("not found in your configuration", k))

\* get_config(pwd, key) is called: find_in_tree starts at pwd.
get_config(k) ==
    /\ pc = "idle"
    /\ op' = "get_config"
    /\ key' = k
    /\ current' = 1
    /\ pc' = "find_in_tree"
    /\ UNCHANGED <<fs, cfg, err, incoming, result, probed, opened>>

\* One iteration of find_in_tree's loop, and get_config's return when the
\* loop ends.
find_in_tree ==
    /\ pc = "find_in_tree"
    /\ LET file == fs[current]
           file_open == open(file, current)
           walk == extract_config(file, current, key)
       IN  /\ probed' = probed \cup {current}
           /\ opened' = IF exists(file) /\ file_open.ok
                        THEN opened \cup {current} ELSE opened
           /\ IF exists(file) /\ ~file_open.ok
              THEN /\ result' = get_config_map_err(Err(file_open.err), key)
                   /\ pc' = "done"
                   /\ current' = current
              ELSE IF exists(file) /\ walk.ok
              THEN /\ result' = get_config_map_err(Ok(walk.val), key)
                   /\ pc' = "done"
                   /\ current' = current
              ELSE IF pop(current, Len(fs))
              THEN /\ current' = current + 1
                   /\ UNCHANGED <<pc, result>>
              ELSE /\ result' = get_config_map_err(Err(internal("")), key)
                   /\ pc' = "done"
                   /\ current' = current
    /\ UNCHANGED <<fs, op, key, cfg, err, incoming>>

(***************************************************************************)
(* The closure all_configs hands to walk_tree: the outcomes [ok, err, cfg] *)
(* of loading one file and merging it into cfg.                            *)
(***************************************************************************)
all_configs_walk(acc, file, path) ==
    LET contents == read_to_string(file, path)
        table == parse(file, path)
        value == from_toml(path, TomlTable(table.val))
    IN  IF ~contents.ok THEN {[ok |-> FALSE, err |-> contents.err, cfg |-> acc]}
        ELSE IF ~table.ok
        THEN {[ok |-> FALSE, err |-> internal("could not parse Toml manifest"),
               cfg |-> acc]}
        ELSE IF ~value.ok THEN {[ok |-> FALSE, err |-> value.err, cfg |-> acc]}
        ELSE {[ok |-> o.ok, err |-> o.err, cfg |-> o.self] : o \in merge(acc, value.val)}

\* all_configs' map_err, and the mapping it returns.
all_configs_return(r, acc) ==
    IF r.ok THEN Ok(acc.value.table)
    ELSE Err(human("Couldn't load Cargo configuration", ""))

\* all_configs(pwd) is called: an empty table accumulator, walk_tree at pwd.
all_configs ==
    /\ pc = "idle"
    /\ op' = "all_configs"
    /\ cfg' = EmptyAccumulator
    /\ err' = FALSE
    /\ current' = 1
    /\ pc' = "walk_tree"
    /\ UNCHANGED <<fs, key, incoming, result, probed, opened>>

\* What walk_tree's match does to err when the closure returned r.
walk_tree_match(r_ok, e) == IF ~r_ok THEN FALSE ELSE e

\* One iteration of walk_tree's loop, and all_configs' return when the loop
\* ends.
walk_tree ==
    /\ pc = "walk_tree"
    /\ LET file == fs[current]
           file_open == open(file, current)
       IN  /\ probed' = probed \cup {current}
           /\ opened' = IF exists(file) /\ file_open.ok
                        THEN opened \cup {current} ELSE opened
           /\ IF exists(file) /\ ~file_open.ok
              THEN /\ result' = all_configs_return(Err(file_open.err), cfg)
                   /\ pc' = "done"
                   /\ UNCHANGED <<cfg, err, current>>
              ELSE /\ \E o \in IF exists(file)
                               THEN all_configs_walk(cfg, file, current)
                               ELSE {[ok |-> TRUE, err |-> NoError, cfg |-> cfg]} :
                        /\ cfg' = o.cfg
                        /\ err' = walk_tree_match(o.ok, err)
                   /\ IF err'
                      THEN /\ result' = all_configs_return(Err(internal("")), cfg')
                           /\ pc' = "done"
                           /\ current' = current
                      ELSE IF pop(current, Len(fs))
                      THEN /\ current' = current + 1
                           /\ UNCHANGED <<pc, result>>
                      ELSE /\ result' = all_configs_return(Ok(NoValue), cfg')
                           /\ pc' = "done"
                           /\ current' = current
    /\ UNCHANGED <<fs, op, key, incoming>>

(***************************************************************************)
(* ConfigValue::merge called twice with the same incoming mapping on an    *)
(* accumulator that starts as an empty table.                              *)
(***************************************************************************)
merge_call ==
    /\ op = "merge"
    /\ pc \in {"merge0", "merge1"}
    /\ \E o \in merge(cfg, incoming) :
          /\ cfg' = o.self
          /\ result' = IF o.ok THEN Ok(NoValue) ELSE Err(o.err)
    /\ pc' = IF pc = "merge0" THEN "merge1" ELSE "merge2"
    /\ UNCHANGED <<fs, op, key, current, err, incoming, probed, opened>>

(***************************************************************************)
(* The inputs.                                                             *)
(***************************************************************************)
StringArrays == UNION {[1..n -> Texts] : n \in 0..MaxLen}

\* The tables of the fragments given to get_config: what "k" may hold, with
\* or without a "j" beside it.
LookupValues ==
    {TomlString("a"), TomlString("b"), TomlInteger, TomlArray(<<TomlInteger>>),
     TomlTable("k" :> TomlString("a")), TomlTable("k" :> TomlInteger)}
LookupTables ==
    LET ks == {EmptyTab} \cup {("k" :> v) : v \in LookupValues}
    IN  ks \cup {("j" :> TomlString("a")) @@ t : t \in ks}

LookupFiles ==
    {File(kind, EmptyTab) : kind \in {"absent", "noopen", "noread", "malformed"}}
    \cup {File("toml", t) : t \in LookupTables}

\* What a key of a fragment given to all_configs may hold.
NestedValues == {TomlString("a"), TomlArray(<<TomlString("b")>>)}
NestedTables == UNION {[D -> NestedValues] : D \in (SUBSET Keys) \ {{}}}
GoodValues ==
    {TomlString(s) : s \in Texts}
    \cup {TomlArray([i \in DOMAIN a |-> TomlString(a[i])]) : a \in StringArrays}
    \cup {TomlTable(t) : t \in NestedTables}
BadValues == {TomlInteger, TomlArray(<<TomlInteger>>)}

AggTables == UNION {[D -> GoodValues \cup BadValues] : D \in SUBSET Keys}

AggFiles ==
    {File(kind, EmptyTab) : kind \in {"absent", "noopen", "noread", "malformed"}}
    \cup {File("toml", t) : t \in AggTables}

Chains(files, n) == UNION {[1..m -> files] : m \in 1..n}

InitCommon ==
    /\ key = ""
    /\ current = 1
    /\ cfg = EmptyAccumulator
    /\ err = FALSE
    /\ result = Ok(NoValue)
    /\ probed = {}
    /\ opened = {}

\* get_config on every chain of at most LookupDirs ancestors.
InitLookup ==
    /\ fs \in Chains(LookupFiles, LookupDirs)
    /\ op = ""
    /\ pc = "idle"
    /\ incoming = NoValue
    /\ InitCommon

NextLookup == (\E k \in Keys : get_config(k)) \/ find_in_tree

SpecLookup == InitLookup /\ [][NextLookup]_vars

\* all_configs on every chain of at most AggDirs ancestors.
Init ==
    /\ fs \in Chains(AggFiles, AggDirs)
    /\ op = ""
    /\ pc = "idle"
    /\ incoming = NoValue
    /\ InitCommon

Next == all_configs \/ walk_tree

Spec == Init /\ [][Next]_vars

\* merge, twice, of every mapping from_toml can produce from a good table.
InitMerge ==
    /\ fs = <<File("absent", EmptyTab)>>
    /\ op = "merge"
    /\ pc = "merge0"
    /\ \E t \in UNION {[D -> GoodValues] : D \in SUBSET Keys} :
          incoming = from_toml(1, TomlTable(t)).val
    /\ InitCommon

NextMerge == merge_call

SpecMerge == InitMerge /\ [][NextMerge]_vars

(***************************************************************************)
(* What the claims speak of.                                               *)
(***************************************************************************)
Done(o) == pc = "done" /\ op = o

Dirs == 1..Len(fs)

\* A value ConfigValue can represent: a string, an array of strings, or a
\* table of such values.
RECURSIVE Convertible(_)
Convertible(toml) ==
    \/ toml.t = "String"
    \/ toml.t = "Array" /\ \A i \in DOMAIN toml.arr : toml.arr[i].t = "String"
    \/ toml.t = "Table" /\ \A k \in DOMAIN toml.tab : Convertible(toml.tab[k])

\* The fragment of ancestor i parses and has key k at top level.
Defines(i, k) == fs[i].kind = "toml" /\ k \in DOMAIN fs[i].tab

\* ... and the value of k is one ConfigValue can represent.
DefinesConvertible(i, k) == Defines(i, k) /\ Convertible(fs[i].tab[k])

\* The fragment of ancestor i exists and fails to load: malformed syntax, or
\* a value that cannot be converted.
FailsToLoad(i) ==
    \/ fs[i].kind = "malformed"
    \/ fs[i].kind = "toml" /\ \E k \in DOMAIN fs[i].tab : ~Convertible(fs[i].tab[k])

\* The variant from_toml gives a TOML value.
VariantOf(toml) ==
    CASE toml.t = "String" -> "String"
      [] toml.t = "Array" -> "List"
      [] toml.t = "Table" -> "Table"
      [] OTHER -> "none"

\* Every path recorded anywhere in a ConfigValue.
RECURSIVE Paths(_)
Paths(cv) ==
    {cv.path[i] : i \in DOMAIN cv.path}
    \cup UNION {Paths(cv.value.table[k]) : k \in DOMAIN cv.value.table}

\* A ConfigValue without its provenance.
RECURSIVE ValueOf(_)
ValueOf(cv) ==
    [tag |-> cv.value.tag, s |-> cv.value.s, list |-> cv.value.list,
     table |-> [k \in DOMAIN cv.value.table |-> ValueOf(cv.value.table[k])]]

RECURSIVE HasNonEmptyList(_)
HasNonEmptyList(cv) ==
    \/ cv.value.tag = "List" /\ cv.value.list # <<>>
    \/ \E k \in DOMAIN cv.value.table : HasNonEmptyList(cv.value.table[k])

NotFound(k) == human("not found in your configuration", k)

(***************************************************************************)
(* C2.                                                                     *)
(***************************************************************************)
NearestOf(D) == IF D = {} THEN 0 ELSE Min(D)

\* get_config returned the value of ancestor n, read nothing farther than n
\* and carries no other path than n's.
ReturnedFrom(n) ==
    /\ n \in Dirs
    /\ Defines(n, key)
    /\ result.val = from_toml(n, fs[n].tab[key]).val
    /\ result.val.path = <<n>>
    /\ Paths(result.val) = {n}
    /\ opened \subseteq 1..n

\* C2 as stated: when get_config succeeds, it returns exactly the value and
\* the single-path provenance of the nearest ancestor whose fragment parses
\* and defines the key at top level, and reads no farther fragment.
C2_NearestDefiningWins ==
    Done("get_config") /\ result.ok
        => ReturnedFrom(NearestOf({i \in Dirs : Defines(i, key)}))

\* C2 amended: when get_config succeeds, it returns exactly the value and
\* the single-path provenance of the nearest ancestor whose fragment parses
\* and defines the key at top level with a value that converts to
\* String/List/Table, and reads no farther fragment.
C2_NearestConvertibleWins ==
    Done("get_config") /\ result.ok
        => ReturnedFrom(NearestOf({i \in Dirs : DefinesConvertible(i, key)}))

\* token = "a" at the start directory, token = "b" one level up: "a" returned.
C2_Witness ==
    /\ Done("get_config") /\ result.ok
    /\ Len(fs) >= 2
    /\ Defines(1, key) /\ fs[1].tab[key] = TomlString("a")
    /\ Defines(2, key) /\ fs[2].tab[key] = TomlString("b")
    /\ result.val = ConfigValue(String("a"), <<1>>)

(***************************************************************************)
(* C3.                                                                     *)
(***************************************************************************)
OpenFails == {i \in Dirs : fs[i].kind = "noopen"}

RECURSIVE ListsTwice(_, _)
ListsTwice(old, new) ==
    /\ new.value.tag = old.value.tag
    /\ new.value.s = old.value.s
    /\ new.value.list = old.value.list \o old.value.list
    /\ DOMAIN new.value.table = DOMAIN old.value.table
    /\ \A k \in DOMAIN old.value.table :
          ListsTwice(old.value.table[k], new.value.table[k])

SecondMerge == pc = "merge1" /\ pc' = "merge2"

\* C8 as stated: merging the same mapping a second time leaves the
\* accumulator's value as the first merge left it, and the mapping-level
\* provenance holds the mapping's path entries twice.
C8_ValueIdempotent ==
    [][SecondMerge =>
          /\ ValueOf(cfg') = ValueOf(cfg)
          /\ cfg'.path = incoming.path \o incoming.path]_vars

\* C8 amended: the second merge succeeds, keeps every key, string and table,
\* and turns every list into that list twice over; so the value is the one
\* the first merge left exactly when the mapping holds no non-empty list.
\* The mapping-level provenance holds the mapping's path entries twice.
C8_IdempotentButForLists ==
    [][SecondMerge =>
          /\ result'.ok
          /\ ListsTwice(cfg, cfg')
          /\ ValueOf(cfg') = ValueOf(cfg) <=> ~HasNonEmptyList(incoming)
          /\ cfg.path = incoming.path
          /\ cfg'.path = incoming.path \o incoming.path]_vars

\* A mapping with a string and a nested table, merged twice.
C8_Witness ==
    /\ pc = "merge2" /\ result.ok
    /\ DOMAIN incoming.value.table = Keys
    /\ incoming.value.table["k"].value.tag = "String"
    /\ incoming.value.table["j"].value.tag = "Table"
    /\ ~HasNonEmptyList(incoming)
    /\ ValueOf(cfg) = ValueOf(incoming)
    /\ cfg.path = <<1, 1>>

(***************************************************************************)
(* all_configs as a function of the chain: every result the call can       *)
(* return from ancestor i on with accumulator acc, over every order in     *)
(* which the tables can be iterated.                                       *)
(***************************************************************************)
RECURSIVE all_configs_results(_, _, _)
all_configs_results(chain, i, acc) ==
    LET file == chain[i]
        file_open == open(file, i)
    IN  IF exists(file) /\ ~file_open.ok
        THEN {all_configs_return(Err(file_open.err), acc)}
        ELSE UNION {
               IF walk_tree_match(o.ok, FALSE)
               THEN {all_configs_return(Err(internal("")), o.cfg)}
               ELSE IF pop(i, Len(chain))
               THEN all_configs_results(chain, i + 1, o.cfg)
               ELSE {all_configs_return(Ok(NoValue), o.cfg)}
               : o \in IF exists(file) THEN all_configs_walk(acc, file, i)
                       ELSE {[ok |-> TRUE, err |-> NoError, cfg |-> acc]} }

\* The fragments all_configs processes: the candidate files that exist.
Layers == {i \in Dirs : exists(fs[i])}

\* The elements of an array of strings.
Elements(toml) == [i \in DOMAIN toml.arr |-> toml.arr[i].s]

IsStringArray(toml) ==
    toml.t = "Array" /\ \A i \in DOMAIN toml.arr : toml.arr[i].t = "String"

\* The lists key k holds in the ancestors i..Len(fs) that exist, concatenated
\* nearest first, and those ancestors' paths.
RECURSIVE ConcatLists(_, _)
ConcatLists(k, i) ==
    IF i > Len(fs) THEN <<>>
    ELSE (IF exists(fs[i]) THEN Elements(fs[i].tab[k]) ELSE <<>>)
         \o ConcatLists(k, i + 1)

RECURSIVE ConcatPaths(_)
ConcatPaths(i) ==
    IF i > Len(fs) THEN <<>>
    ELSE (IF exists(fs[i]) THEN <<i>> ELSE <<>>) \o ConcatPaths(i + 1)

(***************************************************************************)
(* C1.                                                                     *)
(***************************************************************************)
\* C1: when an existing fragment of the chain fails to load (malformed
\* syntax, or a value that cannot be converted), all_configs returns an
\* error and no mapping.
C1_AbortsOnBadFragment ==
    Done("all_configs") /\ (\E i \in Dirs : FailsToLoad(i)) => ~result.ok

(***************************************************************************)
(* C4.                                                                     *)
(***************************************************************************)
\* Two fragments define key k at top level with different variants.
TypeConflict(k) ==
    \E i, j \in Dirs :
        /\ i < j
        /\ Defines(i, k) /\ Defines(j, k)
        /\ VariantOf(fs[i].tab[k]) # "none"
        /\ VariantOf(fs[j].tab[k]) # "none"
        /\ VariantOf(fs[i].tab[k]) # VariantOf(fs[j].tab[k])

\* C4: when two fragments of the chain define the same key with different
\* variants, whichever is nearer, all_configs fails and returns no mapping.
C4_TypeConflictFails ==
    Done("all_configs") /\ (\E k \in Keys : TypeConflict(k)) => ~result.ok

(***************************************************************************)
(* C5.                                                                     *)
(***************************************************************************)
\* C5: what all_configs returns for a chain does not depend on the order in
\* which the tables are iterated during merge: every run on the same chain
\* returns the result this run returned.
C5_Deterministic ==
    Done("all_configs") =>
        \A r \in all_configs_results(fs, 1, EmptyAccumulator) : r = result

(***************************************************************************)
(* C6.                                                                     *)
(***************************************************************************)
\* C6: when every fragment of the chain defines key k as a list, all_configs
\* yields for k the lists concatenated nearest first, with the fragments'
\* paths concatenated in the same order.
C6_ListsConcatenated ==
    \A k \in Keys :
        /\ Done("all_configs")
        /\ Layers # {}
        /\ \A i \in Layers : Defines(i, k) /\ IsStringArray(fs[i].tab[k])
        => /\ result.ok
           /\ k \in DOMAIN result.val
           /\ result.val[k] = ConfigValue(List(ConcatLists(k, 1)), ConcatPaths(1))

(***************************************************************************)
(* C7.                                                                     *)
(***************************************************************************)
\* The ancestors whose fragment defines key k as a string.
StringDefiners(k) == {i \in Dirs : Defines(i, k) /\ fs[i].tab[k].t = "String"}

\* C7: when several fragments define key k as a string, the mapping
\* all_configs returns holds for k the text of the farthest of them, with
\* that one fragment's path as provenance.
C7_FarthestStringWins ==
    \A k \in Keys :
        /\ Done("all_configs") /\ result.ok
        /\ Cardinality(StringDefiners(k)) >= 2
        => /\ k \in DOMAIN result.val
           /\ result.val[k] =
                 ConfigValue(String(fs[Max(StringDefiners(k))].tab[k].s),
                             <<Max(StringDefiners(k))>>)

(***************************************************************************)
(* C9.                                                                     *)
(***************************************************************************)
\* The candidate files the walk reached that exist and cannot be opened or
\* cannot be read.
IoFailures == {i \in probed : fs[i].kind \in {"noopen", "noread"}}

\* C9: when the walk reaches a file that exists and cannot be opened or
\* read, the call fails there with an I/O error naming that file's path.
C9_IoErrorsFatal ==
    pc = "done" /\ op \in {"get_config", "all_configs"} /\ IoFailures # {}
        => /\ ~result.ok
           /\ result.err = IoError(Min(IoFailures))
           /\ probed = 1..Min(IoFailures)

(***************************************************************************)
(* C10.                                                                    *)
(***************************************************************************)
\* The variant new has wherever old has a value: at the root and at every
\* key path of old.
RECURSIVE VariantsKept(_, _)
VariantsKept(old, new) ==
    /\ new.value.tag = old.value.tag
    /\ DOMAIN old.value.table \subseteq DOMAIN new.value.table
    /\ \A k \in DOMAIN old.value.table :
          VariantsKept(old.value.table[k], new.value.table[k])

\* Two values differ in variant, at the root or at a key path of both.
RECURSIVE VariantsDiffer(_, _)
VariantsDiffer(a, b) ==
    \/ a.value.tag # b.value.tag
    \/ \E k \in DOMAIN a.value.table \cap DOMAIN b.value.table :
          VariantsDiffer(a.value.table[k], b.value.table[k])

\* The fragment of the walk's current ancestor, converted.
CurrentValue == from_toml(current, TomlTable(fs[current].tab))

\* The ancestors whose fragment defines k.j with a variant.
NestedDefiners(k, j) ==
    {i \in Dirs : /\ Defines(i, k)
                  /\ fs[i].tab[k].t = "Table"
                  /\ j \in DOMAIN fs[i].tab[k].tab}

\* Every step leaves to the accumulator and to every key in it the variant
\* it had.
C10_VariantsNeverChange == [][VariantsKept(cfg, cfg')]_vars

\* A merge of operands that differ in variant at some key path fails,
\* whatever the order of iteration.
C10_MismatchAlwaysFails ==
    pc = "walk_tree" /\ fs[current].kind = "toml" /\ CurrentValue.ok
    /\ VariantsDiffer(cfg, CurrentValue.val)
        => \A o \in merge(cfg, CurrentValue.val) : ~o.ok

\* In the mapping all_configs returns, the variant at each key path is the
\* one given by the nearest fragment that defines it.
C10_NearestGivesVariant ==
    Done("all_configs") /\ result.ok =>
        \A k \in DOMAIN result.val :
            LET D == {i \in Dirs : Defines(i, k) /\ VariantOf(fs[i].tab[k]) # "none"}
            IN  /\ D # {}
                /\ result.val[k].value.tag = VariantOf(fs[Min(D)].tab[k])
                /\ \A j \in DOMAIN result.val[k].value.table :
                      /\ NestedDefiners(k, j) # {}
                      /\ result.val[k].value.table[j].value.tag =
                            VariantOf(fs[Min(NestedDefiners(k, j))].tab[k].tab[j])

\* C10: merge never changes the variant of the accumulator or of a key in
\* it, a merge of operands of different variants at some key path always
\* fails, and so the variant at each key path of all_configs' mapping is the
\* one given by the nearest fragment that defines it.
C10_VariantFixedPerKey ==
    /\ C10_VariantsNeverChange
    /\ []C10_MismatchAlwaysFails
    /\ []C10_NearestGivesVariant

(***************************************************************************)
(* What all_configs does on the chains where nothing fails: every file     *)
(* that exists is read and converted, and no two fragments differ in       *)
(* variant at a key path.  There the call succeeds and C5, C6, C7 and the  *)
(* last part of C10 hold: they fail only through the errors walk_tree      *)
(* drops.                                                                  *)
(***************************************************************************)
NothingFails ==
    /\ \A i \in Dirs : fs[i].kind \in {"absent", "toml"} /\ ~FailsToLoad(i)
    /\ \A i, j \in Dirs :
          i < j /\ fs[i].kind = "toml" /\ fs[j].kind = "toml" =>
              ~VariantsDiffer(from_toml(i, TomlTable(fs[i].tab)).val,
                              from_toml(j, TomlTable(fs[j].tab)).val)

WhenNothingFails ==
    NothingFails =>
        /\ Done("all_configs") => result.ok
        /\ C5_Deterministic
        /\ C6_ListsConcatenated
        /\ C7_FarthestStringWins
        /\ C10_NearestGivesVariant

\* The result of every run is one of all_configs_results.
ResultIsOneOfResults ==
    Done("all_configs") => result \in all_configs_results(fs, 1, EmptyAccumulator)

====
